---- MODULE Spec2Model ----
(***************************************************************************)
(* Yasper (Yet Another Simple ParsER): the command registry, the command   *)
(* search tree and the execute pipeline of src/yasper.py.                  *)
(*                                                                         *)
(* A Python string is a sequence of one-character strings; the Python      *)
(* value None, a returned string, the value returned by a handler and a    *)
(* raised exception are the four kinds of PyValue below.                   *)
(***************************************************************************)
EXTENDS Integers, Sequences, FiniteSets, TLC

VARIABLES fdict, ctree, op, arg, result, calls, stdout

vars == <<fdict, ctree, op, arg, result, calls, stdout>>

(***************************************************************************)
(* Bounds of the model.                                                    *)
(***************************************************************************)
\* longest command of a built parser (SpecTree, SpecExec)
MaxLen == 3
\* most commands of a built tree (SpecTree)
MaxCommands == 3
\* how far a query may run past the longest command
MaxExtra == 1
\* most commands of a built parser under SpecExec
MaxExecCommands == 2
\* longest command token of an executed line
MaxTokenLen == 2
\* most argument tokens of an executed line
MaxArgs == 2
\* largest num_arguments a handler is registered with (the least is -1)
MaxNArgs == 1
\* longest name handed to registerFunction in the life cycle (Spec)
MaxNameLen == 1
\* most keys of fdict in the life cycle (Spec)
MaxRegistered == 2

UpperLetters == {"A", "B"}
LowerLetters == {"a", "b"}
Letters == UpperLetters \cup LowerLetters
ArgTokens == {<<"x">>, <<"y">>}
Handlers == {"f", "g"}
NArgs == -1 .. MaxNArgs

\* every sequence over S of length at most n
SeqsUpTo(S, n) == UNION {[1..k -> S] : k \in 0..n}

(***************************************************************************)
(* Python values.                                                          *)
(***************************************************************************)
None == [kind |-> "None", str |-> <<>>, exc |-> "", f |-> "", data |-> <<>>]
Str(s) == [kind |-> "str", str |-> s, exc |-> "", f |-> "", data |-> <<>>]
\* the value the handler f returns when called on data
Value(f, data) == [kind |-> "value", str |-> <<>>, exc |-> "", f |-> f, data |-> data]
Raise(e) == [kind |-> "raise", str |-> <<>>, exc |-> e, f |-> "", data |-> <<>>]

\* str.upper on the letters of the model
upperChar(c) == CASE c = "a" -> "A" [] c = "b" -> "B" [] OTHER -> c
upper(s) == [i \in 1..Len(s) |-> upperChar(s[i])]

IsWhitespace(c) == c = " "

\* str.split(): the maximal runs of non-whitespace characters, in order
RECURSIVE splitFrom(_, _, _)
splitFrom(s, word, acc) ==
    IF s = <<>> THEN (IF word = <<>> THEN acc ELSE Append(acc, word))
    ELSE IF IsWhitespace(Head(s))
         THEN splitFrom(Tail(s), <<>>, IF word = <<>> THEN acc ELSE Append(acc, word))
         ELSE splitFrom(Tail(s), Append(word, Head(s)), acc)
split(s) == splitFrom(s, <<>>, <<>>)

(***************************************************************************)
(* YasperCommandTreeNode and YasperCommandTreeNodeChildren.                *)
(* A node is a record; its children field is childrenlist, in the order    *)
(* the children were appended.                                             *)
(***************************************************************************)
YasperCommandTreeNode(c) ==
    [c |-> c, children |-> <<>>, terminal |-> FALSE, maxdescendants |-> 0]

getCharacters(childrenlist) == [i \in 1..Len(childrenlist) |-> childrenlist[i].c]

\* index of the first child that represents c; 0 stands for None
getChild(childrenlist, c) ==
    IF \E i \in 1..Len(childrenlist) : childrenlist[i].c = c
    THEN CHOOSE i \in 1..Len(childrenlist) :
            /\ childrenlist[i].c = c
            /\ \A j \in 1..(i-1) : childrenlist[j].c # c
    ELSE 0

\* the childrenlist after addChild(c)
addChild(childrenlist, c) ==
    IF \E i \in 1..Len(childrenlist) : getCharacters(childrenlist)[i] = c
    THEN childrenlist
    ELSE Append(childrenlist, YasperCommandTreeNode(c))

\* the node after addCommand(s)
RECURSIVE addCommand(_, _)
addCommand(node, s) ==
    IF s = <<>> THEN [node EXCEPT !.terminal = TRUE]
    ELSE LET found == getChild(node.children, <<s[1]>>)
             kids == IF found = 0 THEN addChild(node.children, <<s[1]>>)
                     ELSE node.children
             nextnode == getChild(kids, <<s[1]>>)
         IN [node EXCEPT !.children =
                [kids EXCEPT ![nextnode] = addCommand(kids[nextnode], Tail(s))]]

Max(a, b) == IF a >= b THEN a ELSE b

RECURSIVE MaxOver(_, _)
MaxOver(childrenlist, sofar) ==
    IF childrenlist = <<>> THEN sofar
    ELSE MaxOver(Tail(childrenlist), Max(sofar, Head(childrenlist).maxdescendants))

RECURSIVE updateMaxDescendants(_)

\* a slip: a node counts its own children and forgets its descendants
updateMaxDescendants_OwnChildren(node) ==
    LET kids == [i \in 1..Len(node.children) |->
                    updateMaxDescendants(node.children[i])]
    IN [node EXCEPT !.children = kids, !.maxdescendants = Len(kids)]

\* the node after updateMaxDescendants(); the call returns its maxdescendants
updateMaxDescendants(node) ==
    LET kids == [i \in 1..Len(node.children) |->
                    updateMaxDescendants(node.children[i])]
        maxofchildren == MaxOver(kids, 0)
    IN [node EXCEPT !.children = kids,
                    !.maxdescendants = Max(Len(kids), maxofchildren)]

RECURSIVE followTrail(_)

\* a slip: the trail ends at the node it starts from
followTrail_StopsAtFirst(node) == Str(node.c)

\* a slip: a terminal node with one child does not end the trail
followTrail_NoStopCheck(node) ==
    IF Len(node.children) = 1
    THEN LET subtrail == followTrail(node.children[1])
         IN IF subtrail = None THEN None
            ELSE Str(node.c \o subtrail.str)
    ELSE Str(node.c)

followTrail(node) ==
    IF Len(node.children) = 1
    THEN IF node.terminal THEN None
         ELSE LET subtrail == followTrail(node.children[1])
              IN IF subtrail = None THEN None
                 ELSE Str(node.c \o subtrail.str)
    ELSE Str(node.c)

RECURSIVE searchCommand(_, _)

\* a slip: an exhausted query at a terminal node that has children is
\* taken for ambiguous
searchCommand_AmbiguousExact(node, s) ==
    IF s = <<>>
    THEN IF node.terminal /\ node.children = <<>> THEN Str(node.c)
         ELSE IF ~node.terminal /\ node.maxdescendants = 1 THEN followTrail(node)
         ELSE None
    ELSE LET nextnode == getChild(node.children, <<s[1]>>)
         IN IF nextnode = 0
            THEN (IF node.terminal THEN Str(node.c) ELSE None)
            ELSE LET futuresearch == searchCommand(node.children[nextnode], Tail(s))
                 IN IF futuresearch = None THEN None
                    ELSE Str(node.c \o futuresearch.str)

\* a slip: a query that runs past the tree matches nothing
searchCommand_NoOvercompletion(node, s) ==
    IF s = <<>>
    THEN IF node.terminal THEN Str(node.c)
         ELSE IF node.maxdescendants = 1 THEN followTrail(node)
         ELSE None
    ELSE LET nextnode == getChild(node.children, <<s[1]>>)
         IN IF nextnode = 0
            THEN None
            ELSE LET futuresearch == searchCommand(node.children[nextnode], Tail(s))
                 IN IF futuresearch = None THEN None
                    ELSE Str(node.c \o futuresearch.str)

\* a slip: a query that leaves the tree stops at the node it reached,
\* terminal or not
searchCommand_StopsAnywhere(node, s) ==
    IF s = <<>>
    THEN IF node.terminal THEN Str(node.c)
         ELSE IF node.maxdescendants = 1 THEN followTrail(node)
         ELSE None
    ELSE LET nextnode == getChild(node.children, <<s[1]>>)
         IN IF nextnode = 0
            THEN Str(node.c)
            ELSE LET futuresearch == searchCommand(node.children[nextnode], Tail(s))
                 IN IF futuresearch = None THEN None
                    ELSE Str(node.c \o futuresearch.str)

searchCommand(node, s) ==
    IF s = <<>>
    THEN IF node.terminal THEN Str(node.c)
         ELSE IF node.maxdescendants = 1 THEN followTrail(node)
         ELSE None
    ELSE LET nextnode == getChild(node.children, <<s[1]>>)
         IN IF nextnode = 0
            THEN (IF node.terminal THEN Str(node.c) ELSE None)
            ELSE LET futuresearch == searchCommand(node.children[nextnode], Tail(s))
                 IN IF futuresearch = None THEN None
                    ELSE Str(node.c \o futuresearch.str)

(***************************************************************************)
(* YasperCommandTree.                                                      *)
(***************************************************************************)
YasperCommandTree == [root |-> YasperCommandTreeNode(<<>>)]

RECURSIVE addCommands(_, _)
addCommands(root, commandlist) ==
    IF commandlist = <<>> THEN root
    ELSE addCommands(addCommand(root, Head(commandlist)), Tail(commandlist))

\* a slip: the tree is filled and maxdescendants is left as constructed
treeInitialize_NoUpdate(tree, commandlist) ==
    [tree EXCEPT !.root = addCommands(tree.root, commandlist)]

\* the tree after initialize(commandlist)
treeInitialize(tree, commandlist) ==
    [tree EXCEPT !.root = updateMaxDescendants(addCommands(tree.root, commandlist))]

treeGetCommand(tree, s) == searchCommand(tree.root, s)

(***************************************************************************)
(* Yasper.  fdict is a Python dict: its entries in insertion order, one    *)
(* per key.  The attribute ctree exists only once initialize has run:      *)
(* ctree is the empty sequence until then, and <<tree>> afterwards.        *)
(***************************************************************************)
YasperFunction(f, nargs) == [f |-> f, nargs |-> nargs]

\* index of the entry of key s; 0 when s is no key
fdictIndex(fd, s) ==
    IF \E i \in 1..Len(fd) : fd[i].key = s
    THEN CHOOSE i \in 1..Len(fd) : fd[i].key = s
    ELSE 0

keys(fd) == [i \in 1..Len(fd) |-> fd[i].key]

\* fdict after fdict[key] = value
fdictSet(fd, key, value) ==
    IF fdictIndex(fd, key) = 0
    THEN Append(fd, [key |-> key, value |-> value])
    ELSE [fd EXCEPT ![fdictIndex(fd, key)].value = value]

\* a slip: the constructor creates an empty tree, and a search before
\* initialize() walks it
\* fdict after registerFunction(s, f, nargs)
registered(fd, s, f, nargs) == fdictSet(fd, upper(s), YasperFunction(f, nargs))

YasperGetCommand_EmptyTree(ct, s) ==
    IF ct = <<>> THEN treeGetCommand(YasperCommandTree, s)
    ELSE treeGetCommand(ct[1], s)

YasperGetCommand(ct, s) ==
    IF ct = <<>> THEN Raise("AttributeError")
    ELSE treeGetCommand(ct[1], s)

\* what one call leaves behind: its return value or exception, the handler
\* calls it made and the lines it printed
Outcome(r, c, o) == [result |-> r, calls |-> c, stdout |-> o]

\* the line errorprint prints: "ERROR: " + text + s
errorprint(text, s) == [text |-> text, s |-> s]

\* a slip: as many arguments as expected count as too few
callFunction_TooFewWhenEqual(fd, s, data) ==
    LET i == fdictIndex(fd, s)
    IN IF i = 0 THEN Outcome(Raise("KeyError"), <<>>, <<>>)
       ELSE LET expectednargs == fd[i].value.nargs
            IN IF Len(data) > expectednargs
               THEN LET passed == IF expectednargs >= 0
                                  THEN SubSeq(data, 1, expectednargs)
                                  ELSE data
                    IN Outcome(Value(fd[i].value.f, passed),
                               <<[s |-> s, f |-> fd[i].value.f, data |-> passed]>>,
                               <<>>)
               ELSE Outcome(None, <<>>,
                            <<errorprint("Too few arguments for command ", s)>>)

callFunction(fd, s, data) ==
    LET i == fdictIndex(fd, s)
    IN IF i = 0 THEN Outcome(Raise("KeyError"), <<>>, <<>>)
       ELSE LET expectednargs == fd[i].value.nargs
            IN IF Len(data) >= expectednargs
               THEN LET passed == IF expectednargs >= 0
                                  THEN SubSeq(data, 1, expectednargs)
                                  ELSE data
                    IN Outcome(Value(fd[i].value.f, passed),
                               <<[s |-> s, f |-> fd[i].value.f, data |-> passed]>>,
                               <<>>)
               ELSE Outcome(None, <<>>,
                            <<errorprint("Too few arguments for command ", s)>>)

\* a slip: the command token is searched as typed
commandToken_AsTyped(word) == word

\* the command token as execute hands it to getCommand
commandToken(word) == upper(word)

executeOutcome(fd, ct, inputstring) ==
    IF inputstring = <<>> THEN Outcome(None, <<>>, <<>>)
    ELSE LET inputlist == split(inputstring)
         IN IF inputlist = <<>> THEN Outcome(Raise("IndexError"), <<>>, <<>>)
            ELSE LET command == YasperGetCommand(ct, commandToken(inputlist[1]))
                 IN IF command.kind = "raise" THEN Outcome(command, <<>>, <<>>)
                    ELSE IF command = None
                    THEN Outcome(None, <<>>,
                                 <<errorprint("Invalid or ambiguous command", <<>>)>>)
                    ELSE callFunction(fd, command.str, Tail(inputlist))

(***************************************************************************)
(* The inputs of the operations.                                           *)
(***************************************************************************)
RECURSIVE Join(_)
Join(words) ==
    IF words = <<>> THEN <<>>
    ELSE IF Len(words) = 1 THEN words[1]
    ELSE words[1] \o <<" ">> \o Join(Tail(words))

ArgLists == SeqsUpTo(ArgTokens, MaxArgs)

\* the lines whose command token has at most n letters, in any letter case,
\* followed by arguments; the empty line; a blank line
Lines(n) ==
    {Join(<<w>> \o a) : w \in SeqsUpTo(Letters, n) \ {<<>>}, a \in ArgLists}
        \cup {<<>>, <<" ">>}

\* the names handed to registerFunction, in any letter case
RawNames == SeqsUpTo(Letters, MaxNameLen)

\* the text getCommand is handed in the life cycle: execute hands it an
\* upper-cased token, a direct caller any text
LifeQueries == SeqsUpTo(Letters, MaxNameLen + MaxExtra)

LifeInputs == Lines(MaxNameLen)

(***************************************************************************)
(* The operations of a Yasper object.                                      *)
(***************************************************************************)
Init ==
    /\ fdict = <<>>
    /\ ctree = <<>>
    /\ op = "__init__"
    /\ arg = <<>>
    /\ result = None
    /\ calls = <<>>
    /\ stdout = <<>>

\* the first conjunct keeps fdict within MaxRegistered keys
registerFunction(s, f, nargs) ==
    /\ fdictIndex(fdict, upper(s)) # 0 \/ Len(fdict) < MaxRegistered
    /\ fdict' = registered(fdict, s, f, nargs)
    /\ op' = "registerFunction"
    /\ arg' = s
    /\ result' = None
    /\ calls' = <<>>
    /\ stdout' = <<>>
    /\ UNCHANGED ctree

initialize ==
    /\ ctree' = <<treeInitialize(YasperCommandTree, keys(fdict))>>
    /\ op' = "initialize"
    /\ arg' = <<>>
    /\ result' = None
    /\ calls' = <<>>
    /\ stdout' = <<>>
    /\ UNCHANGED fdict

getCommand(s) ==
    /\ op' = "getCommand"
    /\ arg' = s
    /\ result' = YasperGetCommand(ctree, s)
    /\ calls' = <<>>
    /\ stdout' = <<>>
    /\ UNCHANGED <<fdict, ctree>>

execute(inputstring) ==
    LET out == executeOutcome(fdict, ctree, inputstring)
    IN /\ op' = "execute"
       /\ arg' = inputstring
       /\ result' = out.result
       /\ calls' = out.calls
       /\ stdout' = out.stdout
       /\ UNCHANGED <<fdict, ctree>>

Next ==
    \/ \E s \in RawNames, f \in Handlers, nargs \in NArgs : registerFunction(s, f, nargs)
    \/ initialize
    \/ \E s \in LifeQueries : getCommand(s)
    \/ \E inputstring \in LifeInputs : execute(inputstring)

Spec == Init /\ [][Next]_vars

(***************************************************************************)
(* A built parser: the state after registerFunction has been called for    *)
(* each command of a set and initialize() has run.  getCommand and execute *)
(* change neither fdict nor ctree, so what a call leaves behind depends on *)
(* the built parser and the call alone: SpecTree and SpecExec apply one    *)
(* call to every built parser within the bounds.                           *)
(***************************************************************************)
Commands == SeqsUpTo(UpperLetters, MaxLen)

LetterRank(c) == IF c = "A" THEN 1 ELSE 2

\* shorter first, then alphabetical
Before(s, t) ==
    \/ Len(s) < Len(t)
    \/ /\ Len(s) = Len(t)
       /\ \E i \in 1..Len(s) :
            /\ LetterRank(s[i]) < LetterRank(t[i])
            /\ \A j \in 1..(i-1) : s[j] = t[j]

\* every set of at most n commands, as the key list of a dict the commands
\* were registered in, shorter first, then alphabetical
KeyLists(n) ==
    {ks \in SeqsUpTo(Commands, n) :
        \A i, j \in 1..Len(ks) : i < j => Before(ks[i], ks[j])}

Built(fd) ==
    /\ fdict = fd
    /\ ctree = <<treeInitialize(YasperCommandTree, keys(fd))>>
    /\ op = "initialize"
    /\ arg = <<>>
    /\ result = None
    /\ calls = <<>>
    /\ stdout = <<>>

\* the upper-cased text getCommand is handed
Queries == SeqsUpTo(UpperLetters, MaxLen + MaxExtra)

\* getCommand never reads the values of fdict: one handler stands for all
InitTree ==
    \E ks \in KeyLists(MaxCommands) :
        Built([i \in 1..Len(ks) |-> [key |-> ks[i], value |-> YasperFunction("f", -1)]])

NextTree == op = "initialize" /\ \E s \in Queries : getCommand(s)

SpecTree == InitTree /\ [][NextTree]_vars

\* the i-th command registered has a handler of its own
HandlerAt(i) == IF i = 1 THEN "f" ELSE IF i = 2 THEN "g" ELSE "h"

\* fdict after registerFunction(names[i], HandlerAt(i), ns[i]) for each i in turn
RECURSIVE registerAll(_, _, _, _)
registerAll(fd, names, ns, i) ==
    IF i > Len(names) THEN fd
    ELSE registerAll(registered(fd, names[i], HandlerAt(i), ns[i]), names, ns, i + 1)

\* the spellings of the command k: every word that str.upper turns into k
SpellingsOf(k) == {w \in [1..Len(k) -> Letters] : upper(w) = k}

\* the names of the commands of ks, each in some letter case
Spellings(ks) ==
    {names \in [1..Len(ks) -> UNION {SpellingsOf(ks[i]) : i \in 1..Len(ks)}] :
        \A i \in 1..Len(ks) : names[i] \in SpellingsOf(ks[i])}

InitExec ==
    \E ks \in KeyLists(MaxExecCommands) :
        \E names \in Spellings(ks), ns \in [1..Len(ks) -> NArgs] :
            Built(registerAll(<<>>, names, ns, 1))

ExecInputs == Lines(MaxTokenLen)

NextExec == op = "initialize" /\ \E inputstring \in ExecInputs : execute(inputstring)

SpecExec == InitExec /\ [][NextExec]_vars

(***************************************************************************)
(* Properties.                                                             *)
(***************************************************************************)
\* the registered commands: the keys of fdict
Registered == {fdict[i].key : i \in 1..Len(fdict)}

IsPrefix(p, s) == Len(p) <= Len(s) /\ SubSeq(s, 1, Len(p)) = p
IsStrictPrefix(p, s) == IsPrefix(p, s) /\ Len(p) < Len(s)

Root == ctree[1].root

\* the node the path leads to from node; the path is in the tree
RECURSIVE NodeAt(_, _)
NodeAt(node, path) ==
    IF path = <<>> THEN node
    ELSE NodeAt(node.children[getChild(node.children, <<path[1]>>)], Tail(path))

\* c is registered and no other registered command has c as a prefix
Unextended(c) ==
    c \in Registered /\ \A d \in Registered : IsPrefix(c, d) => d = c

\* C1: on a built tree the query C, a registered command, resolves to C,
\* whatever else is registered.
C1_ExactMatch ==
    (op = "getCommand" /\ arg \in Registered) => result = Str(arg)

\* a registered command was queried that extends one registered command and
\* is extended by another
C1_Witness ==
    /\ op = "getCommand"
    /\ arg \in Registered
    /\ \E c, d \in Registered : IsStrictPrefix(c, arg) /\ IsStrictPrefix(arg, d)
    /\ result = Str(arg)

\* the query is the registered command c followed by extra characters, and
\* no registered command starts with c and the first of them
Overcompletes(q, c) ==
    /\ c \in Registered
    /\ IsStrictPrefix(c, q)
    /\ \A d \in Registered : ~IsPrefix(SubSeq(q, 1, Len(c) + 1), d)

\* C2: the query C+X, with C registered, X not empty and no registered
\* command starting with C and the first character of X, resolves to C.
C2_Overcompletion ==
    op = "getCommand" =>
        \A k \in 0..Len(arg) :
            Overcompletes(arg, SubSeq(arg, 1, k)) => result = Str(SubSeq(arg, 1, k))

\* a command that another registered command extends was overcompleted
C2_Witness ==
    /\ op = "getCommand"
    /\ \E k \in 1..Len(arg) :
        /\ Overcompletes(arg, SubSeq(arg, 1, k))
        /\ \E d \in Registered : IsStrictPrefix(SubSeq(arg, 1, k), d)
        /\ result = Str(SubSeq(arg, 1, k))

\* the query p is a non-empty strict prefix of the unextended command c and
\* the node of p has maxdescendants 1
Undercompletes(p, c) ==
    /\ Unextended(c)
    /\ p # <<>>
    /\ IsStrictPrefix(p, c)
    /\ NodeAt(Root, p).maxdescendants = 1

\* no registered command lies on the way from p to c, p included, c excluded
NoStopBetween(p, c) ==
    \A q \in Registered : ~(IsPrefix(p, q) /\ IsStrictPrefix(q, c))

\* C3 as stated: every non-empty strict prefix P of an unextended command C
\* whose node has maxdescendants 1 resolves to C.
C3_Undercompletion_AsStated ==
    op = "getCommand" =>
        \A c \in Registered : Undercompletes(arg, c) => result = Str(c)

\* C3 as amended: every non-empty strict prefix P of an unextended command C
\* whose node has maxdescendants 1 resolves to C, provided that neither P nor
\* any longer strict prefix of C is itself a registered command.
C3_Undercompletion ==
    op = "getCommand" =>
        \A c \in Registered :
            (Undercompletes(arg, c) /\ NoStopBetween(arg, c)) => result = Str(c)

\* a prefix at least two characters short of its command was completed
\* while another command was registered
C3_Witness ==
    /\ op = "getCommand"
    /\ Cardinality(Registered) >= 2
    /\ \E c \in Registered :
        /\ Undercompletes(arg, c)
        /\ NoStopBetween(arg, c)
        /\ Len(c) >= Len(arg) + 2
        /\ result = Str(c)

\* p is a common prefix of two distinct registered commands and is shorter
\* than both
SharedPrefix(p) ==
    \E c, d \in Registered : c # d /\ IsStrictPrefix(p, c) /\ IsStrictPrefix(p, d)

\* C4 as stated: a common prefix P of two distinct registered commands,
\* shorter than both, resolves to no command, whatever else is registered.
C4_SharedPrefixAmbiguous_AsStated ==
    (op = "getCommand" /\ SharedPrefix(arg)) => result = None

\* C4 as amended: a common prefix P of two distinct registered commands,
\* shorter than both, resolves to no command unless P is itself a registered
\* command.
C4_SharedPrefixAmbiguous ==
    (op = "getCommand" /\ SharedPrefix(arg) /\ arg \notin Registered)
        => result = None

\* a shared prefix was queried whose two commands are one the prefix of the
\* other, so that its node has maxdescendants 1
C4_Witness ==
    /\ op = "getCommand"
    /\ SharedPrefix(arg)
    /\ arg \notin Registered
    /\ NodeAt(Root, arg).maxdescendants = 1
    /\ result = None

\* C5 as stated: the query C, a registered command that is a strict prefix of
\* another registered command, resolves to no command.
C5_StopOrContinue_AsStated ==
    (op = "getCommand" /\ arg \in Registered
        /\ \E d \in Registered : IsStrictPrefix(arg, d))
        => result = None

\* C5 as amended: when the registered command C is a strict prefix of another
\* registered command, the query C resolves to C, and a query that is a strict
\* prefix of C and not itself registered resolves to no command.
C5_StopOrContinue ==
    op = "getCommand" =>
        \A c, d \in Registered :
            IsStrictPrefix(c, d) =>
                /\ arg = c => result = Str(c)
                /\ (IsStrictPrefix(arg, c) /\ arg \notin Registered) => result = None

\* a strict prefix of such a command C was queried whose node has
\* maxdescendants 1: the trail stops at C
C5_Witness ==
    /\ op = "getCommand"
    /\ arg \notin Registered
    /\ \E c, d \in Registered : IsStrictPrefix(c, d) /\ IsStrictPrefix(arg, c)
    /\ NodeAt(Root, arg).maxdescendants = 1
    /\ result = None

\* C6 as stated: when the empty string is not registered, the empty query
\* resolves to no command, for every number of registered commands.
C6_EmptyQuery_AsStated ==
    (op = "getCommand" /\ arg = <<>> /\ <<>> \notin Registered) => result = None

\* C6 as amended: when the empty string is not registered, the empty query
\* never raises; it resolves to the registered command when exactly one is
\* registered, and to no command otherwise.
C6_EmptyQuery ==
    (op = "getCommand" /\ arg = <<>> /\ <<>> \notin Registered) =>
        IF Cardinality(Registered) = 1
        THEN \A c \in Registered : result = Str(c)
        ELSE result = None

\* the empty query was made with exactly one command registered
C6_Witness ==
    /\ op = "getCommand"
    /\ arg = <<>>
    /\ <<>> \notin Registered
    /\ Cardinality(Registered) = 1
    /\ result.kind = "str"

\* C7 as stated: once initialize() has run, a further registerFunction fails
\* with an error instead of being silently accepted.
C7_InsertAfterFinalizeRejected ==
    (op = "registerFunction" /\ ctree # <<>>) => result.kind = "raise"

swapCase(c) ==
    CASE c = "a" -> "A" [] c = "A" -> "a" [] c = "b" -> "B" [] c = "B" -> "b"
      [] OTHER -> c

\* the words that differ from w in the letter case of some positions only
CaseVariants(w) ==
    {v \in [1..Len(w) -> Letters] :
        \A i \in 1..Len(w) : v[i] = w[i] \/ v[i] = swapCase(w[i])}

\* C9: the keys of fdict are upper-case; executing a line leaves behind what
\* executing it with its command token in any other letter case leaves
\* behind; and a command resolved is a key of fdict.
C9_CaseInsensitive ==
    /\ \A c \in Registered : \A i \in 1..Len(c) : c[i] \in UpperLetters
    /\ (op = "execute" /\ split(arg) # <<>>) =>
        /\ \A v \in CaseVariants(split(arg)[1]) :
                executeOutcome(fdict, ctree, Join(<<v>> \o Tail(split(arg))))
                    = Outcome(result, calls, stdout)
        /\ calls # <<>> => calls[1].s \in Registered

\* a command token holding a lower-case and an upper-case letter resolved to
\* a command
C9_Witness ==
    /\ op = "execute"
    /\ split(arg) # <<>>
    /\ \E i, j \in 1..Len(split(arg)[1]) :
            split(arg)[1][i] \in LowerLetters /\ split(arg)[1][j] \in UpperLetters
    /\ calls # <<>>

RECURSIVE Terminals(_)
Terminals(node) ==
    (IF node.terminal THEN {node.c} ELSE {})
        \cup UNION {{node.c \o t : t \in Terminals(node.children[i])} :
                        i \in 1..Len(node.children)}

\* C11: after any sequence of registerFunction and initialize calls, the tree
\* initialize has just built holds exactly the keys of fdict as its terminal
\* nodes; whenever getCommand returns a command, the command is a terminal
\* node of the tree, is a key of fdict, and is a prefix of the upper-cased
\* query or has the query as a prefix; execute never ends in the KeyError of
\* a missing key, and the command it calls a handler for is a key of fdict.
C11_ResolutionSound ==
    /\ op = "initialize" => Terminals(Root) = Registered
    /\ ctree # <<>> => Terminals(Root) \subseteq Registered
    /\ (op = "getCommand" /\ result.kind = "str") =>
            /\ result.str \in Terminals(Root)
            /\ result.str \in Registered
            /\ IsPrefix(result.str, upper(arg)) \/ IsPrefix(arg, result.str)
    /\ op = "execute" =>
            /\ result # Raise("KeyError")
            /\ \A i \in 1..Len(calls) :
                    /\ calls[i].s \in Registered
                    /\ calls[i].s \in Terminals(Root)

\* getCommand completed a query to a command of the tree while fdict holds a
\* name registered after the tree was built
C11_Witness ==
    /\ op = "getCommand"
    /\ result.kind = "str"
    /\ result.str # <<>>
    /\ arg # result.str
    /\ Terminals(Root) # Registered

====
